---- MODULE Spec2Model ----
(***************************************************************************)
(* Model of src/main.py: the POST /search pipeline of the search API.      *)
(* One request runs get_material: a retry loop around the search provider  *)
(* (ddgs.atext), host deduplication of the results, a fan-out of           *)
(* fetch_and_parse_article workers joined by asyncio.gather, and the       *)
(* formatter that joins the successful extracts into the digest.           *)
(*                                                                         *)
(* Strings that the code inspects character by character (URLs, titles,    *)
(* texts, the digest) are sequences of one-character tokens; exception     *)
(* messages, which the code only passes along, are TLA+ strings.           *)
(***************************************************************************)
EXTENDS Integers, Sequences, FiniteSets, TLC

VARIABLES
    pc,        \* position of the request: "idle", "atext", "sleep", "gather", "done"
    attempt,   \* loop variable of `for attempt in range(max_retries)`
    calls,     \* number of ddgs.atext calls made by the request
    waits,     \* number of asyncio.sleep backoff waits started by the request
    delay,     \* argument of the asyncio.sleep in progress: [base, jitter]
    exc,       \* exception last caught in get_material
    results,   \* value returned by ddgs.atext
    urls,      \* the deduplicated URL list
    session,   \* aiohttp.ClientSession of the fan-out: "none", "open", "closed"
    workers,   \* the fetch_and_parse_article coroutines handed to gather
    finished,  \* indexes of the workers in the order they completed
    articles,  \* the list returned by asyncio.gather
    response,  \* the HTTP response of POST /search
    other      \* the locals of a second request, suspended at an await

vars == <<pc, attempt, calls, waits, delay, exc, results, urls, session,
          workers, finished, articles, response, other>>

-----------------------------------------------------------------------------
(* Bounds of the model *)

\* longest result list the provider returns in the model
MaxLen == 2

\* the jitter random.uniform(0, 1) is drawn from {0, 1/J, ..., (J-1)/J}
JitterSteps == 2

-----------------------------------------------------------------------------
(* Program constants *)

max_retries == 5

initial_delay == 1

TruncLen == 10000

-----------------------------------------------------------------------------
(* Small helpers *)

Min(a, b) == IF a < b THEN a ELSE b

RECURSIVE Pow2(_)
Pow2(n) == IF n = 0 THEN 1 ELSE 2 * Pow2(n - 1)

\* s.find(c, start): 1-based index of the first c at or after start, 0 if none
Find(s, c, start) ==
    LET hits == {k \in start..Len(s) : s[k] = c}
    IN  IF hits = {} THEN 0 ELSE CHOOSE k \in hits : \A m \in hits : k <= m

Contains(s, c) == \E k \in 1..Len(s) : s[k] = c

\* Python's optional values: None is <<>>, a value v is <<v>>
None == <<>>

Some(v) == <<v>>

\* dict.get(key)
Get(d, key) == IF key \in DOMAIN d THEN Some(d[key]) ELSE None

\* `not url` for an optional string: None or the empty string
Falsy(opt) == opt = None \/ opt[1] = <<>>

-----------------------------------------------------------------------------
(* URLs and urlparse(url).netloc *)

Alpha == {"h", "s", "a", "b", "c"}

SchemeChars == Alpha \cup {"1", "2", "+", "-", "."}

\* _splitnetloc(url, 2): index of the first of "/", "?", "#" after the "//"
NetlocEnd(url) ==
    LET ds == {k \in 3..Len(url) : url[k] \in {"/", "?", "#"}}
    IN  IF ds = {} THEN Len(url) + 1 ELSE CHOOSE k \in ds : \A m \in ds : k <= m

\* urlparse(url).netloc, or the ValueError urlsplit raises
Netloc(url) ==
    LET i == Find(url, ":", 1)
        hasScheme == /\ i > 1
                     /\ url[1] \in Alpha
                     /\ \A k \in 1..(i - 1) : url[k] \in SchemeChars
        rest == IF hasScheme THEN SubSeq(url, i + 1, Len(url)) ELSE url
    IN  IF Len(rest) >= 2 /\ rest[1] = "/" /\ rest[2] = "/"
        THEN LET nl == SubSeq(rest, 3, NetlocEnd(rest) - 1)
             IN  IF \/ Contains(nl, "[") /\ ~Contains(nl, "]")
                    \/ Contains(nl, "]") /\ ~Contains(nl, "[")
                 THEN [ok |-> FALSE, netloc |-> <<>>]
                 ELSE [ok |-> TRUE, netloc |-> nl]
        ELSE [ok |-> TRUE, netloc |-> <<>>]

ValueError == [type |-> "ValueError", msg |-> "Invalid IPv6 URL"]

\* the URLs the provider's results carry in the model
UrlA1 == <<"h", ":", "/", "/", "a", "/", "1">>

UrlA2 == <<"h", ":", "/", "/", "a", "/", "2">>

UrlB == <<"s", ":", "/", "/", "b">>

UrlC == <<"/", "/", "c", "?", "1">>

UrlBad == <<"h", ":", "/", "/", "[", "a">>

\* one result of the provider: a dict with an href, with an empty href or
\* without one
ResultDicts ==
    {[href |-> u] : u \in {UrlA1, UrlA2, UrlB, UrlC, UrlBad, <<>>}}
        \cup {[title |-> <<"a">>]}

RECURSIVE SeqsUpTo(_, _)
SeqsUpTo(S, n) ==
    IF n = 0 THEN {<<>>}
    ELSE LET shorter == SeqsUpTo(S, n - 1)
         IN  shorter \cup {Append(s, x) : s \in {t \in shorter : Len(t) = n - 1}, x \in S}

ResultLists == SeqsUpTo(ResultDicts, MaxLen)

-----------------------------------------------------------------------------
(* The deduplication loop of get_material *)

\* an iteration that forgets `seen_domains.add(domain)`
DedupStepNoAdd(st, result) ==
    LET url == Get(result, "href")
    IN  IF st.exc # None THEN st
        ELSE IF Falsy(url) THEN st
        ELSE LET domain == Netloc(url[1])
             IN  IF ~domain.ok THEN [st EXCEPT !.exc = Some(ValueError)]
                 ELSE IF domain.netloc \in st.seen THEN st
                 ELSE [st EXCEPT !.urls = Append(st.urls, url[1])]

\* an iteration that does urls.insert(0, url) instead of urls.append(url)
DedupStepPrepend(st, result) ==
    LET url == Get(result, "href")
    IN  IF st.exc # None THEN st
        ELSE IF Falsy(url) THEN st
        ELSE LET domain == Netloc(url[1])
             IN  IF ~domain.ok THEN [st EXCEPT !.exc = Some(ValueError)]
                 ELSE IF domain.netloc \in st.seen THEN st
                 ELSE [urls |-> <<url[1]>> \o st.urls,
                       seen |-> st.seen \cup {domain.netloc},
                       exc  |-> None]

\* an iteration without `if not url: continue`, a missing href read as ""
DedupStepKeepMissing(st, result) ==
    LET got == Get(result, "href")
        url == IF Falsy(got) THEN <<>> ELSE got[1]
    IN  IF st.exc # None THEN st
        ELSE LET domain == Netloc(url)
             IN  IF ~domain.ok THEN [st EXCEPT !.exc = Some(ValueError)]
                 ELSE IF domain.netloc \in st.seen THEN st
                 ELSE [urls |-> Append(st.urls, url),
                       seen |-> st.seen \cup {domain.netloc},
                       exc  |-> None]

\* one iteration of `for result in results`; st = [urls, seen, exc]
DedupStep(st, result) ==
    LET url == Get(result, "href")
    IN  IF st.exc # None THEN st
        ELSE IF Falsy(url) THEN st
        ELSE LET domain == Netloc(url[1])
             IN  IF ~domain.ok THEN [st EXCEPT !.exc = Some(ValueError)]
                 ELSE IF domain.netloc \in st.seen THEN st
                 ELSE [urls |-> Append(st.urls, url[1]),
                       seen |-> st.seen \cup {domain.netloc},
                       exc  |-> None]

RECURSIVE DedupFrom(_, _)
DedupFrom(st, rs) ==
    IF rs = <<>> THEN st ELSE DedupFrom(DedupStep(st, Head(rs)), Tail(rs))

Dedup(rs) == DedupFrom([urls |-> <<>>, seen |-> {}, exc |-> None], rs)

-----------------------------------------------------------------------------
(* Text cleaning *)

\* ord(char) of the characters the model's pages are made of
Ord(ch) ==
    CASE ch = " " -> 32
      [] ch = "\n" -> 10
      [] ch = "\t" -> 9
      [] ch = "A" -> 65
      [] ch = "x" -> 120
      [] ch = "E9" -> 233      \* e with acute accent
      [] ch = "U2014" -> 8212  \* em dash

\* the characters str.strip() removes: str.isspace() on ASCII
IsSpace(ch) == Ord(ch) \in (9..13) \cup (28..32)

RECURSIVE LStrip(_)
LStrip(s) == IF s # <<>> /\ IsSpace(Head(s)) THEN LStrip(Tail(s)) ELSE s

RECURSIVE RStrip(_)
RStrip(s) ==
    IF s # <<>> /\ IsSpace(s[Len(s)]) THEN RStrip(SubSeq(s, 1, Len(s) - 1)) ELSE s

\* str.strip()
Strip(s) == RStrip(LStrip(s))

\* a cleaning that drops the non-ASCII characters: encode("ascii", "ignore")
clean_text_dropping(text) ==
    IF text = <<>> THEN <<>>
    ELSE Strip(SelectSeq(text, LAMBDA ch : Ord(ch) < 128))

clean_text(text) ==
    IF text = <<>> THEN <<>>
    ELSE Strip([k \in 1..Len(text) |-> IF Ord(text[k]) < 128 THEN text[k] ELSE " "])

\* text[:n]
Prefix(text, n) == SubSeq(text, 1, Min(Len(text), n))

-----------------------------------------------------------------------------
(* The web servers and the article-extraction routine *)

\* status codes of the responses to session.get
Statuses == {200, 404, 500}

\* str(e) of the exceptions session.get raises (a timeout has an empty message)
GetErrors == {""}

\* str(e) of the exceptions response.text() or article.parse() raise
ParseErrors == {"parse failed"}

\* what article.parse() extracts from the pages of the model: title and text
Pages ==
    {[title |-> <<"A">>, text |-> <<"x", "\n", "x", " ">>],
     [title |-> <<" ", "E9">>, text |-> <<"x", "U2014", "x">>]}

\* n times the character ch
Rep(ch, n) == [k \in 1..n |-> ch]

\* titles and texts of the pages on which the normalisation of the worker
\* is checked: short and empty ones, and ones around the 10000 characters
ExtractTitles ==
    {<<>>,
     <<"A">>,
     <<" ", "E9">>,
     <<"\t", "A", "\n">>,
     <<"A", " ", "U2014", " ", "A">>,
     Rep("A", 10001),
     Rep("A", 10000) \o <<"E9">>,
     <<"E9">> \o Rep("x", 10000)}

ExtractTexts ==
    {<<>>,
     <<"x", "\n", "x", " ">>,
     <<" ", "x", "E9", "x", "\t">>,
     Rep("x", 10000),
     Rep("x", 10001),
     Rep("x", 9999) \o <<"E9", "A">>,
     Rep("x", 9998) \o <<" ", " ", "A">>,
     <<"U2014">> \o Rep("x", 10000)}

ExtractPages == {[title |-> t, text |-> x] : t \in ExtractTitles, x \in ExtractTexts}

-----------------------------------------------------------------------------
(* fetch_and_parse_article *)

\* values a coroutine hands to gather: a returned dict or a raised exception
Returned(d) == [kind |-> "dict", val |-> d]

Raised(msg) == [kind |-> "exc", val |-> msg]

NoValue == [kind |-> "none"]

\* a coroutine created at `task = fetch_and_parse_article(session, url)`:
\* pc is "get" (awaiting session.get), "text" (awaiting response.text()) or
\* "done"; status is the response status seen (0: none), parsed tells
\* whether article.parse() was run, raw is what it extracted (None: nothing)
NewWorker(url) ==
    [pc |-> "get", url |-> url, status |-> 0, parsed |-> FALSE, raw |-> None,
     ret |-> NoValue]

\* a worker without the except clause: the exception leaves the coroutine
Reraise(w, msg) == [w EXCEPT !.pc = "done", !.ret = Raised(msg)]

\* `except Exception as e: return {"url": url, "error": str(e)}`
CatchAll(w, msg) ==
    [w EXCEPT !.pc = "done", !.ret = Returned([url |-> w.url, error |-> msg])]

\* session.get(url, timeout=10) answers with a status
GotStatus(w, status) ==
    IF status # 200
    THEN [w EXCEPT !.pc = "done", !.status = status,
                   !.ret = Returned([url |-> w.url,
                                     error |-> "HTTP " \o ToString(status)])]
    ELSE [w EXCEPT !.pc = "text", !.status = status]

\* a worker that cleans the whole text, without the [:10000]
ParsedUntruncated(w, page) ==
    [w EXCEPT !.pc = "done", !.parsed = TRUE, !.raw = Some(page),
              !.ret = Returned([title |-> clean_text(page.title),
                                text  |-> clean_text(page.text)])]

\* response.text() returned; article.set_html, article.parse extracted page
Parsed(w, page) ==
    [w EXCEPT !.pc = "done", !.parsed = TRUE, !.raw = Some(page),
              !.ret = Returned([title |-> clean_text(page.title),
                                text  |-> clean_text(Prefix(page.text, TruncLen))])]

\* article.parse() raised
ParseFailed(w, msg) == CatchAll([w EXCEPT !.parsed = TRUE], msg)

-----------------------------------------------------------------------------
(* asyncio.gather and the formatter *)

\* a join that collects the values as the coroutines complete
GatherAsCompleted(ws, done) == [k \in 1..Len(ws) |-> ws[done[k]].ret]

\* gather(*tasks, return_exceptions=True): the values in the order of tasks;
\* done lists the coroutines in the order they completed
Gather(ws, done) == [k \in 1..Len(ws) |-> ws[k].ret]

Dashes == <<"-", "-", "-", "-", "-">>

\* the lines one article adds to formatted_results
Block(article) ==
    IF article.kind = "dict" /\ "error" \notin DOMAIN article.val
    THEN << <<"Title: ">> \o article.val.title,
            <<"Text: ">> \o article.val.text,
            Dashes >>
    ELSE <<>>

RECURSIVE FormattedResults(_)
FormattedResults(arts) ==
    IF arts = <<>> THEN <<>> ELSE Block(Head(arts)) \o FormattedResults(Tail(arts))

\* "".join(lines)
RECURSIVE JoinNoSeparator(_)
JoinNoSeparator(lines) ==
    IF lines = <<>> THEN <<>> ELSE Head(lines) \o JoinNoSeparator(Tail(lines))

\* "\n".join(lines)
RECURSIVE JoinLines(_)
JoinLines(lines) ==
    IF lines = <<>> THEN <<>>
    ELSE IF Len(lines) = 1 THEN lines[1]
    ELSE lines[1] \o <<"\n">> \o JoinLines(Tail(lines))

Format(arts) == JoinLines(FormattedResults(arts))

-----------------------------------------------------------------------------
(* The retry policy of get_material and the responses of POST /search *)

RatelimitException == [type |-> "RatelimitException", msg |-> "202 Ratelimit"]

DuckDuckGoSearchException == [type |-> "DuckDuckGoSearchException", msg |-> "provider error"]

OtherException == [type |-> "Exception", msg |-> "unexpected"]

\* what ddgs.atext raises in the model
SearchErrors == {RatelimitException, DuckDuckGoSearchException, OtherException}

\* a retry clause that names RatelimitException only
RetryRatelimitOnly(e) == e.type = "RatelimitException"

\* a retry clause that catches every exception
RetryAny(e) == TRUE

\* `except (RatelimitException, DuckDuckGoSearchException)`
Retryable(e) == e.type \in {"RatelimitException", "DuckDuckGoSearchException"}

\* a retry test that is off by one: the loop sleeps after its last attempt
LastAttemptOffByOne(k) == k = max_retries

\* `if attempt == max_retries - 1: raise`
LastAttempt(k) == k = max_retries - 1

\* a linear backoff, initial_delay * (2 * attempt)
BackoffLinear(k, j) == [base |-> initial_delay * 2 * k, jitter |-> j]

\* initial_delay * (2 ** attempt) + random.uniform(0, 1), the jitter being
\* j / JitterSteps seconds
Backoff(k, j) == [base |-> initial_delay * Pow2(k), jitter |-> j]

NoDelay == [base |-> 0, jitter |-> 0]

NoResponse == [status |-> 0]

\* search(): `return {"results": results}`
Ok200(digest) == [status |-> 200, results |-> digest]

\* a handler that hides the exception behind a fixed message
Error500Generic(e) == [status |-> 500, detail |-> "Internal Server Error"]

\* search(): `raise HTTPException(status_code=500, detail=str(e))`
Error500(e) == [status |-> 500, detail |-> e.msg]

\* a pipeline that lacks the test for empty results
NoResultsNever(rs) == FALSE

\* `if not results`
NoResults(rs) == rs = <<>>

\* the value of a function that falls off its end
PyNone == <<"None">>

-----------------------------------------------------------------------------
(* The state machine *)

\* the locals of a request that has not started
IdleRequest ==
    [pc |-> "idle", attempt |-> 0, calls |-> 0, waits |-> 0, delay |-> NoDelay,
     exc |-> None, results |-> <<>>, urls |-> <<>>, session |-> "none",
     workers |-> <<>>, finished |-> <<>>, articles |-> <<>>,
     response |-> NoResponse]

Init ==
    /\ other = IdleRequest
    /\ pc = "idle"
    /\ attempt = 0
    /\ calls = 0
    /\ waits = 0
    /\ delay = NoDelay
    /\ exc = None
    /\ results = <<>>
    /\ urls = <<>>
    /\ session = "none"
    /\ workers = <<>>
    /\ finished = <<>>
    /\ articles = <<>>
    /\ response = NoResponse

\* POST /search arrives: search() calls get_material, which enters the
\* retry loop and awaits the first ddgs.atext
Receive ==
    /\ pc = "idle"
    /\ pc' = "atext"
    /\ attempt' = 0
    /\ UNCHANGED <<calls, waits, delay, exc, results, urls, session, workers,
                   finished, articles, response, other>>

\* ddgs.atext returns rs: empty results return "", otherwise the results are
\* deduplicated, the session is opened and the workers are handed to gather
AtextReturns(rs) ==
    /\ pc = "atext"
    /\ calls' = calls + 1
    /\ results' = rs
    /\ UNCHANGED <<attempt, waits, delay, finished, articles, other>>
    /\ IF NoResults(rs)
       THEN /\ pc' = "done"
            /\ response' = Ok200(<<>>)
            /\ UNCHANGED <<exc, urls, session, workers>>
       ELSE LET st == Dedup(rs)
            IN  /\ urls' = st.urls
                /\ IF st.exc # None
                   THEN /\ exc' = st.exc
                        /\ pc' = "done"
                        /\ response' = Error500(st.exc[1])
                        /\ UNCHANGED <<session, workers>>
                   ELSE /\ session' = "open"
                        /\ workers' = [k \in 1..Len(st.urls) |-> NewWorker(st.urls[k])]
                        /\ pc' = "gather"
                        /\ UNCHANGED <<exc, response>>

\* ddgs.atext raises e: a rate-limit or provider error is retried after the
\* backoff unless this was the last attempt, anything else is re-raised
AtextRaises(e, j) ==
    /\ pc = "atext"
    /\ calls' = calls + 1
    /\ exc' = Some(e)
    /\ UNCHANGED <<attempt, results, urls, session, workers, finished, articles, other>>
    /\ IF Retryable(e) /\ ~LastAttempt(attempt)
       THEN /\ delay' = Backoff(attempt, j)
            /\ waits' = waits + 1
            /\ pc' = "sleep"
            /\ UNCHANGED response
       ELSE /\ pc' = "done"
            /\ response' = Error500(e)
            /\ UNCHANGED <<delay, waits>>

\* asyncio.sleep(delay) is over: the loop goes to its next iteration, or
\* ends, and get_material returns None
SleepDone ==
    /\ pc = "sleep"
    /\ exc' = None
    /\ delay' = NoDelay
    /\ UNCHANGED <<calls, waits, results, urls, session, workers, finished, articles,
                   other>>
    /\ IF attempt + 1 < max_retries
       THEN /\ attempt' = attempt + 1
            /\ pc' = "atext"
            /\ UNCHANGED response
       ELSE /\ pc' = "done"
            /\ response' = Ok200(PyNone)
            /\ UNCHANGED attempt

\* a join in which the failure of one coroutine cancels the pending ones
WorkerStepCancelling(i, w) ==
    LET failed == w.pc = "done" /\ w.ret.kind = "dict" /\ "error" \in DOMAIN w.ret.val
        hit == IF failed
               THEN {k \in DOMAIN workers : k # i /\ workers[k].pc # "done"}
               ELSE {}
        hitSeq == SelectSeq([k \in 1..Len(workers) |-> k], LAMBDA k : k \in hit)
    IN  /\ workers' = [k \in DOMAIN workers |->
                          IF k = i THEN w
                          ELSE IF k \in hit THEN CatchAll(workers[k], "cancelled")
                          ELSE workers[k]]
        /\ finished' = IF w.pc = "done" THEN Append(finished, i) \o hitSeq ELSE finished
        /\ UNCHANGED <<pc, attempt, calls, waits, delay, exc, results, urls, session,
                       articles, response, other>>

\* the event loop resumes coroutine i, which runs to its next await or to
\* its end and becomes w; no other coroutine is touched
WorkerStep(i, w) ==
    /\ workers' = [workers EXCEPT ![i] = w]
    /\ finished' = IF w.pc = "done" THEN Append(finished, i) ELSE finished
    /\ UNCHANGED <<pc, attempt, calls, waits, delay, exc, results, urls, session,
                   articles, response, other>>

\* session.get of worker i answers with a status
WorkerGetStatus(i, status) ==
    /\ pc = "gather"
    /\ i \in DOMAIN workers
    /\ workers[i].pc = "get"
    /\ WorkerStep(i, GotStatus(workers[i], status))

\* session.get of worker i raises (connection error, timeout)
WorkerGetRaises(i, msg) ==
    /\ pc = "gather"
    /\ i \in DOMAIN workers
    /\ workers[i].pc = "get"
    /\ WorkerStep(i, CatchAll(workers[i], msg))

\* response.text() of worker i returns and the article is parsed into page
WorkerParsed(i, page) ==
    /\ pc = "gather"
    /\ i \in DOMAIN workers
    /\ workers[i].pc = "text"
    /\ WorkerStep(i, Parsed(workers[i], page))

\* the extraction of worker i raises
WorkerParseRaises(i, msg) ==
    /\ pc = "gather"
    /\ i \in DOMAIN workers
    /\ workers[i].pc = "text"
    /\ WorkerStep(i, ParseFailed(workers[i], msg))

\* response.text() of worker i raises (timeout, broken body)
WorkerTextRaises(i, msg) ==
    /\ pc = "gather"
    /\ i \in DOMAIN workers
    /\ workers[i].pc = "text"
    /\ WorkerStep(i, CatchAll(workers[i], msg))

\* a join that returns only when every coroutine returned an extract
GatherDoneIfAllSucceeded ==
    /\ pc = "gather"
    /\ \A k \in DOMAIN workers :
          /\ workers[k].pc = "done"
          /\ "error" \notin DOMAIN workers[k].ret.val
    /\ articles' = Gather(workers, finished)
    /\ session' = "closed"
    /\ response' = Ok200(Format(articles'))
    /\ pc' = "done"
    /\ UNCHANGED <<attempt, calls, waits, delay, exc, results, urls, workers, finished,
                   other>>

\* a fan-out that never closes its session
GatherDoneLeavingOpen ==
    /\ pc = "gather"
    /\ \A k \in DOMAIN workers : workers[k].pc = "done"
    /\ articles' = Gather(workers, finished)
    /\ response' = Ok200(Format(articles'))
    /\ pc' = "done"
    /\ UNCHANGED <<attempt, calls, waits, delay, exc, results, urls, session, workers,
                   finished, other>>

\* every coroutine is done: gather returns, the digest is formatted, the
\* session is closed and search() answers 200
GatherDone ==
    /\ pc = "gather"
    /\ \A k \in DOMAIN workers : workers[k].pc = "done"
    /\ articles' = Gather(workers, finished)
    /\ session' = "closed"
    /\ response' = Ok200(Format(articles'))
    /\ pc' = "done"
    /\ UNCHANGED <<attempt, calls, waits, delay, exc, results, urls, workers, finished,
                   other>>

Next ==
    \/ Receive
    \/ \E rs \in ResultLists : AtextReturns(rs)
    \/ \E e \in SearchErrors, j \in 0..(JitterSteps - 1) : AtextRaises(e, j)
    \/ SleepDone
    \/ \E i \in 1..MaxLen, status \in Statuses : WorkerGetStatus(i, status)
    \/ \E i \in 1..MaxLen, msg \in GetErrors : WorkerGetRaises(i, msg)
    \/ \E i \in 1..MaxLen, page \in Pages : WorkerParsed(i, page)
    \/ \E i \in 1..MaxLen, msg \in ParseErrors : WorkerParseRaises(i, msg)
    \/ \E i \in 1..MaxLen, msg \in GetErrors : WorkerTextRaises(i, msg)
    \/ GatherDone

Spec == Init /\ [][Next]_vars

\* the provider answers every call, a sleep ends, the web servers answer
\* every fetch or the 10-second timeout of the fetch fires, and the event
\* loop resumes whatever is ready
Fairness ==
    /\ WF_vars(\/ \E rs \in ResultLists : AtextReturns(rs)
               \/ \E e \in SearchErrors, j \in 0..(JitterSteps - 1) : AtextRaises(e, j))
    /\ WF_vars(SleepDone)
    /\ \A i \in 1..MaxLen :
          WF_vars(\/ \E status \in Statuses : WorkerGetStatus(i, status)
                  \/ \E msg \in GetErrors : WorkerGetRaises(i, msg)
                  \/ \E page \in Pages : WorkerParsed(i, page)
                  \/ \E msg \in ParseErrors : WorkerParseRaises(i, msg)
                  \/ \E msg \in GetErrors : WorkerTextRaises(i, msg))
    /\ WF_vars(GatherDone)

SpecLive == Spec /\ Fairness

\* the locals of the running request
Running ==
    [pc |-> pc, attempt |-> attempt, calls |-> calls, waits |-> waits,
     delay |-> delay, exc |-> exc, results |-> results, urls |-> urls,
     session |-> session, workers |-> workers, finished |-> finished,
     articles |-> articles, response |-> response]

\* an event loop under which the list of coroutines is a module-level list
\* that the requests share
SwitchSharingWorkers ==
    /\ other' = [Running EXCEPT !.workers = other.workers, !.finished = other.finished]
    /\ pc' = other.pc
    /\ attempt' = other.attempt
    /\ calls' = other.calls
    /\ waits' = other.waits
    /\ delay' = other.delay
    /\ exc' = other.exc
    /\ results' = other.results
    /\ urls' = other.urls
    /\ session' = other.session
    /\ articles' = other.articles
    /\ response' = other.response
    /\ UNCHANGED <<workers, finished>>

\* every state of a request is at an await (or before its start, or after
\* its end): the event loop suspends the running request with its locals
\* and resumes the other one with its own
Switch ==
    /\ other' = Running
    /\ pc' = other.pc
    /\ attempt' = other.attempt
    /\ calls' = other.calls
    /\ waits' = other.waits
    /\ delay' = other.delay
    /\ exc' = other.exc
    /\ results' = other.results
    /\ urls' = other.urls
    /\ session' = other.session
    /\ workers' = other.workers
    /\ finished' = other.finished
    /\ articles' = other.articles
    /\ response' = other.response

\* the result lists the provider returns to the two requests
TwoLists == {<<>>, <<[href |-> UrlA1]>>, <<[href |-> UrlB], [title |-> <<"a">>]>>}

\* two requests interleaved at their awaits
NextTwo ==
    \/ Receive
    \/ \E rs \in TwoLists : AtextReturns(rs)
    \/ \E e \in {RatelimitException, OtherException} : AtextRaises(e, 0)
    \/ SleepDone
    \/ \E status \in {200, 404} : WorkerGetStatus(1, status)
    \/ \E page \in Pages : WorkerParsed(1, page)
    \/ GatherDone
    \/ Switch

SpecTwo == Init /\ [][NextTwo]_vars

\* one request with one URL whose fetch answers 200: the pages the
\* extraction returns range over ExtractPages
NextExtract ==
    \/ Receive
    \/ AtextReturns(<<[href |-> UrlB]>>)
    \/ WorkerGetStatus(1, 200)
    \/ \E page \in ExtractPages : WorkerParsed(1, page)
    \/ GatherDone

SpecExtract == Init /\ [][NextExtract]_vars

-----------------------------------------------------------------------------
(* Properties of the retry policy *)

\* the request ended because get_material let a rate-limit or provider error out
RetriesExhausted == pc = "done" /\ exc # None /\ Retryable(exc[1])

\* C1: when every attempt of a request fails with a rate-limit or provider
\* error, the provider is called exactly max_retries = 5 times and never a
\* 6th time, the 5th failure is not followed by a wait, and the error of the
\* 5th attempt is what the caller gets; no session is opened, no worker is
\* started and no digest is returned.
C1_FiveAttemptsThenError ==
    /\ calls <= 5
    /\ (exc # None /\ Retryable(exc[1]) /\ calls = 5) => pc = "done"
    /\ RetriesExhausted =>
          /\ calls = 5
          /\ waits = 4
          /\ response = [status |-> 500, detail |-> exc[1].msg]
          /\ session = "none"
          /\ workers = <<>>
          /\ articles = <<>>

C1_Witness ==
    /\ RetriesExhausted
    /\ calls = 5
    /\ response.status = 500

\* the base delays of the backoff waits of one request, in seconds
BaseDelays == <<1, 2, 4, 8>>

\* C2 (as amended): after a rate-limit or provider error at 0-based attempt
\* k < 4 the client waits 2^k seconds plus a jitter in [0, 1), so the waits of
\* a request are 1, 2, 4 and 8 seconds plus jitter; after the failure of the
\* fifth attempt (k = 4) there is no wait, the error propagates at once.
C2_BackoffDelays ==
    /\ pc = "sleep" =>
          /\ attempt \in 0..3
          /\ exc # None /\ Retryable(exc[1])
          /\ delay.base = BaseDelays[attempt + 1]
          /\ delay.jitter \in 0..(JitterSteps - 1)
          /\ waits = attempt + 1
    /\ pc # "sleep" => delay = NoDelay
    /\ (exc # None /\ Retryable(exc[1]) /\ attempt = 4) =>
          /\ pc = "done"
          /\ waits = 4
    /\ waits <= 4

C2_Witness ==
    /\ pc = "sleep"
    /\ attempt = 3
    /\ delay.base = 8
    /\ delay.jitter > 0

\* C2 as stated: a rate-limit or provider error at attempt k is followed by a
\* wait of 2^k seconds plus jitter for every k = 0..4 (16 seconds after the
\* fifth attempt).
C2_Original ==
    (exc # None /\ Retryable(exc[1]) /\ attempt \in 0..4) =>
        /\ pc = "sleep"
        /\ delay.base = Pow2(attempt)
        /\ delay.jitter \in 0..(JitterSteps - 1)

\* C3: an exception that is neither a rate-limit nor a provider error, raised
\* at any attempt k by the provider call or by the pipeline after it, ends
\* the request at once with that error: no backoff wait is started for it and
\* the provider has been called k + 1 times and is not called again.
C3_OtherExceptionNotRetried ==
    (exc # None /\ ~(exc[1].type \in {"RatelimitException", "DuckDuckGoSearchException"})) =>
        /\ pc = "done"
        /\ response = [status |-> 500, detail |-> exc[1].msg]
        /\ delay = NoDelay
        /\ calls = attempt + 1
        /\ waits = attempt
        /\ session = "none"

C3_Witness ==
    /\ exc = Some(OtherException)
    /\ attempt = 2
    /\ pc = "done"

-----------------------------------------------------------------------------
(* Properties of the deduplication *)

\* the provider returned results and the deduplication loop ran to its end
DedupDone == results # <<>> /\ exc = None /\ pc \in {"gather", "done"}

HasUrl(result) == "href" \in DOMAIN result /\ result.href # <<>>

\* the URLs of the results that carry one, in result order
Hrefs(rs) ==
    LET withUrl == SelectSeq(rs, HasUrl)
    IN  [k \in 1..Len(withUrl) |-> withUrl[k].href]

Host(u) == Netloc(u).netloc

RECURSIVE IsSubseq(_, _)
IsSubseq(a, b) ==
    IF a = <<>> THEN TRUE
    ELSE IF b = <<>> THEN FALSE
    ELSE IF Head(a) = Head(b) THEN IsSubseq(Tail(a), Tail(b))
    ELSE IsSubseq(a, Tail(b))

\* u is the first URL of the input that has u's host
FirstOfItsHost(u, hs) ==
    \E k \in 1..Len(hs) :
        /\ hs[k] = u
        /\ \A m \in 1..(k - 1) : Host(hs[m]) # Host(u)

\* C4: the deduplicated URL list has at most one URL per distinct host
\* (urlparse netloc), each of its URLs is the first one of the input with
\* that host, and it is a subsequence of the input URLs in input order.
C4_OnePerHostFirstSeen ==
    DedupDone =>
        /\ \A m, n \in 1..Len(urls) : m # n => Host(urls[m]) # Host(urls[n])
        /\ \A m \in 1..Len(urls) : FirstOfItsHost(urls[m], Hrefs(results))
        /\ IsSubseq(urls, Hrefs(results))

C4_Witness ==
    /\ DedupDone
    /\ Len(results) = 2
    /\ Len(urls) = 1
    /\ HasUrl(results[1]) /\ HasUrl(results[2])
    /\ results[1] # results[2]

\* a URL list handed back to the deduplication as a result list
AsResults(us) == [k \in 1..Len(us) |-> [href |-> us[k]]]

\* C5: deduplication is idempotent: deduplicating the deduplicated list
\* yields the same URLs in the same order.
C5_DedupIdempotent ==
    DedupDone =>
        /\ Dedup(AsResults(urls)).urls = urls
        /\ Dedup(AsResults(urls)).exc = None

C5_Witness ==
    /\ DedupDone
    /\ Len(urls) = 2
    /\ Dedup(AsResults(urls)).urls = urls

-----------------------------------------------------------------------------
(* Properties of the fan-out *)

\* the fan-out ran and gather returned
FanOutDone == pc = "done" /\ session = "closed"

Succeeded(w) == w.pc = "done" /\ w.ret.kind = "dict" /\ "error" \notin DOMAIN w.ret.val

Failed(w) == w.pc = "done" /\ ~Succeeded(w)

\* C6: whatever the order in which the workers complete, the i-th value
\* gather collects is the result of the worker of the i-th URL.
C6_ResultsInUrlOrder ==
    FanOutDone =>
        /\ Len(workers) = Len(urls)
        /\ Len(articles) = Len(urls)
        /\ \A k \in 1..Len(urls) :
              /\ workers[k].url = urls[k]
              /\ articles[k] = workers[k].ret
              /\ Failed(workers[k]) => articles[k].val.url = urls[k]

C6_Witness ==
    /\ FanOutDone
    /\ finished = <<2, 1>>
    /\ Len(articles) = 2
    /\ Succeeded(workers[1])
    /\ Failed(workers[2])

\* the text one successful extract puts into the digest
BlockText(w) ==
    <<"Title: ">> \o w.ret.val.title \o <<"\n">>
        \o <<"Text: ">> \o w.ret.val.text \o <<"\n">>
        \o <<"-", "-", "-", "-", "-">>

\* a occurs in b as a run of consecutive characters
IsInfix(a, b) ==
    \E k \in 0..(Len(b) - Len(a)) : SubSeq(b, k + 1, k + Len(a)) = a

Count(d, tok) == Cardinality({k \in 1..Len(d) : d[k] = tok})

\* the indexes of the workers that succeeded, in URL order
SucceededIdx ==
    SelectSeq([k \in 1..Len(workers) |-> k], LAMBDA k : Succeeded(workers[k]))

\* a step in which a worker fails leaves every other worker as it was
C7_IsolatedStep ==
    \A i \in DOMAIN workers :
        (workers[i].pc # "done" /\ i \in DOMAIN workers' /\ Failed(workers'[i])) =>
            \A k \in DOMAIN workers \ {i} : workers'[k] = workers[k]

\* gather returns only when every worker is done, and the digest holds the
\* block of every worker that succeeded, as many titles and texts as
\* workers succeeded, and no character of a URL or of an error message
C7_AllJoined ==
    FanOutDone =>
        /\ \A k \in DOMAIN workers : workers[k].pc = "done"
        /\ Len(finished) = Len(workers)
        /\ response.status = 200
        /\ \A k \in DOMAIN workers :
              Succeeded(workers[k]) => IsInfix(BlockText(workers[k]), response.results)
        /\ Count(response.results, "Title: ") = Len(SucceededIdx)
        /\ Count(response.results, "Text: ") = Len(SucceededIdx)
        /\ \A k \in 1..Len(response.results) :
              response.results[k] \in {"Title: ", "Text: ", "-", "\n", " ", "A", "x"}

\* C7: failure isolation: the fan-out waits until every worker is done, a
\* worker that fails changes no other worker, every worker that succeeded is
\* in the digest and the failed ones leave nothing in it.
C7_FailureIsolation == [][C7_IsolatedStep]_vars /\ []C7_AllJoined

C7_Witness ==
    /\ FanOutDone
    /\ finished = <<1, 2>>
    /\ Failed(workers[1])
    /\ Succeeded(workers[2])
    /\ response.results # <<>>

\* C8: fetch_and_parse_article never raises: it always returns a dict; a
\* non-200 status gives {url, error: "HTTP <status>"} and the extraction is
\* not run; an exception of the fetch or of the extraction gives
\* {url, error: <message>}; only a 200 response whose extraction succeeded
\* gives {title, text}.
C8_WorkerNeverRaises ==
    \A k \in DOMAIN workers :
        LET w == workers[k]
        IN  w.pc = "done" =>
               /\ w.ret.kind = "dict"
               /\ w.status \notin {0, 200} =>
                     /\ w.ret.val = [url |-> urls[k], error |-> "HTTP " \o ToString(w.status)]
                     /\ ~w.parsed
               /\ (w.status = 0 \/ "error" \in DOMAIN w.ret.val) =>
                     /\ DOMAIN w.ret.val = {"url", "error"}
                     /\ w.ret.val.url = urls[k]
               /\ "error" \notin DOMAIN w.ret.val =>
                     /\ DOMAIN w.ret.val = {"title", "text"}
                     /\ w.status = 200
                     /\ w.parsed

C8_Witness ==
    /\ Len(workers) = 2
    /\ workers[1].pc = "done" /\ workers[1].status = 404
    /\ workers[2].pc = "done" /\ workers[2].status = 200
    /\ workers[2].parsed /\ Failed(workers[2])

\* the blocks of the workers idx, joined by newlines
RECURSIVE BlocksJoined(_)
BlocksJoined(idx) ==
    IF idx = <<>> THEN <<>>
    ELSE IF Len(idx) = 1 THEN BlockText(workers[idx[1]])
    ELSE BlockText(workers[Head(idx)]) \o <<"\n">> \o BlocksJoined(Tail(idx))

\* C9: the digest is one block ("Title: <title>", "Text: <text>", "-----",
\* each on a line of its own) per URL whose extract succeeded, in URL
\* order, joined by newlines; failed extracts add nothing, and the digest
\* is empty when no extract succeeded.
C9_DigestBlocks ==
    FanOutDone =>
        /\ response.status = 200
        /\ response.results = BlocksJoined(SucceededIdx)
        /\ SucceededIdx = <<>> => response.results = <<>>
        /\ Count(response.results, "-") = 5 * Len(SucceededIdx)

C9_Witness ==
    /\ FanOutDone
    /\ Len(SucceededIdx) = 2
    /\ workers[1].ret # workers[2].ret
    /\ Count(response.results, "Title: ") = 2

\* C10: when the provider returns zero results the request answers 200 with
\* the empty digest, and no session is opened and no worker is started.
C10_EmptyResults ==
    (pc = "done" /\ exc = None /\ results = <<>>) =>
        /\ response = [status |-> 200, results |-> <<>>]
        /\ session = "none"
        /\ workers = <<>>
        /\ finished = <<>>
        /\ articles = <<>>

C10_Witness ==
    /\ pc = "done"
    /\ exc = None
    /\ results = <<>>
    /\ calls = 2
    /\ response.status = 200

-----------------------------------------------------------------------------
(* Properties of the API surface *)

\* C11: POST /search answers with exactly one of two outcomes: 200 with the
\* digest when the pipeline returned, or 500 whose detail is the message of
\* the exception the pipeline raised (also after exhausted retries); failed
\* fetches alone never give a 500, and neither their URLs nor their error
\* messages reach the caller.
C11_TwoOutcomes ==
    /\ pc # "done" => response = [status |-> 0]
    /\ pc = "done" =>
          /\ response.status \in {200, 500}
          /\ response.status = 200 <=> exc = None
          /\ response.status = 200 => DOMAIN response = {"status", "results"}
          /\ response.status = 500 =>
                /\ DOMAIN response = {"status", "detail"}
                /\ response.detail = exc[1].msg
                /\ workers = <<>>
    /\ FanOutDone =>
          /\ response.status = 200
          /\ (\A k \in DOMAIN workers : Failed(workers[k])) => response.results = <<>>

C11_Witness ==
    /\ FanOutDone
    /\ Len(workers) = 2
    /\ \A k \in DOMAIN workers : Failed(workers[k])
    /\ response = [status |-> 200, results |-> <<>>]
    /\ attempt = 1

-----------------------------------------------------------------------------
(* Properties of the normalisation of title and text *)

NonAsciiChars == {"E9", "U2014"}

WhiteChars == {" ", "\n", "\t"}

\* s with a space in the place of every non-ASCII character
Spaced(s) == [k \in 1..Len(s) |-> IF s[k] \in NonAsciiChars THEN " " ELSE s[k]]

AllWhite(s) == \A k \in 1..Len(s) : s[k] \in WhiteChars

\* out is s with every non-ASCII character replaced by one space, the other
\* characters in place, and the leading and trailing whitespace removed
IsCleaned(out, s) ==
    /\ Len(out) <= Len(s)
    /\ out # <<>> => (out[1] \notin WhiteChars /\ out[Len(out)] \notin WhiteChars)
    /\ \E a \in 0..(Len(s) - Len(out)) :
          /\ SubSeq(Spaced(s), a + 1, a + Len(out)) = out
          /\ AllWhite(SubSeq(Spaced(s), 1, a))
          /\ AllWhite(SubSeq(Spaced(s), a + Len(out) + 1, Len(s)))

\* the first n characters of s
FirstChars(s, n) == IF Len(s) > n THEN SubSeq(s, 1, n) ELSE s

\* the workers that returned an extract
Extracted == {k \in DOMAIN workers : Succeeded(workers[k]) /\ workers[k].raw # None}

\* C12 (as amended): the worker cleans both the title and the text, and
\* truncates the text only: the text of an extract is the cleaned first
\* 10000 characters of the extracted text, the title is the cleaned whole
\* extracted title, whatever its length.
C12_TextTruncatedTitleNot ==
    \A k \in Extracted :
        LET w == workers[k]
        IN  /\ IsCleaned(w.ret.val.text, FirstChars(w.raw[1].text, 10000))
            /\ Len(w.ret.val.text) <= 10000
            /\ IsCleaned(w.ret.val.title, w.raw[1].title)

C12_Witness ==
    \E k \in Extracted :
        /\ Len(workers[k].raw[1].text) = 10001
        /\ Len(workers[k].ret.val.text) = 10000
        /\ Len(workers[k].raw[1].title) = 10001
        /\ Len(workers[k].ret.val.title) = 10001

\* C12 as stated: the title and the text of an extract both come from the
\* first 10000 characters of what the extraction returned.
C12_Original ==
    \A k \in Extracted :
        LET w == workers[k]
        IN  /\ IsCleaned(w.ret.val.text, FirstChars(w.raw[1].text, 10000))
            /\ IsCleaned(w.ret.val.title, FirstChars(w.raw[1].title, 10000))

\* C13: clean_text replaces each non-ASCII character by exactly one space,
\* leaves the ASCII characters unchanged and in place, then removes the
\* leading and trailing whitespace; an empty input gives the empty string;
\* the output holds ASCII characters only and cleaning it again changes
\* nothing.
C13_CleanText ==
    \A k \in Extracted :
        LET raw == workers[k].raw[1].title
            out == workers[k].ret.val.title
        IN  /\ IsCleaned(out, raw)
            /\ raw = <<>> => out = <<>>
            /\ \A m \in 1..Len(out) : out[m] \notin NonAsciiChars
            /\ clean_text(out) = out
            /\ Len(raw) <= 5 =>
                  \A m \in 1..Len(raw) :
                      (raw[m] \notin NonAsciiChars /\ raw[m] \notin WhiteChars) =>
                          \E n \in 1..Len(out) : out[n] = raw[m]

C13_Witness ==
    \E k \in Extracted :
        /\ workers[k].raw[1].title = <<"A", " ", "U2014", " ", "A">>
        /\ workers[k].ret.val.title = <<"A", " ", " ", " ", "A">>

-----------------------------------------------------------------------------
(* Properties of the session of the fan-out *)

Pending == {k \in DOMAIN workers : workers[k].pc # "done"}

\* where the session is, given where the request is
C14_SessionScope ==
    /\ session \in {"none", "open", "closed"}
    /\ session = "open" <=> pc = "gather"
    /\ session # "none" => (results # <<>> /\ exc = None /\ calls = attempt + 1)
    /\ workers # <<>> => session # "none"
    /\ Pending # {} => session = "open"
    /\ session = "closed" => pc = "done"
    /\ pc = "done" => session # "open"

\* how the session and the workers change in one step
C14_SessionStep ==
    /\ session' # session =>
          \/ /\ session = "none" /\ session' = "open"
             /\ workers = <<>>
             /\ \A k \in DOMAIN workers' : workers'[k].pc = "get"
          \/ /\ session = "open" /\ session' = "closed"
             /\ Pending = {}
             /\ workers' = workers
    /\ workers' # workers => session' = "open"

\* C14: the session of the fetches belongs to one request's fan-out: it is
\* opened at most once, after a search that returned results and before any
\* worker starts; every worker runs while it is open; it is closed once,
\* after every worker is done, and it is not open when the request ends.
C14_SessionPerFanOut == [][C14_SessionStep]_vars /\ []C14_SessionScope

C14_Witness ==
    /\ session = "closed"
    /\ Len(finished) = 2
    /\ pc = "done"
    /\ attempt = 0

-----------------------------------------------------------------------------
(* Properties of the recovery after failed attempts *)

\* a provider call of the request returned
SearchReturned == results # <<>> \/ (pc = "done" /\ exc = None)

\* the counts once a call returned, and no early surrender
C15_Counts ==
    /\ SearchReturned =>
          /\ attempt \in 0..4
          /\ calls = attempt + 1
          /\ waits = attempt
          /\ pc \in {"gather", "done"}
          /\ (pc = "done" /\ exc = None) =>
                (response.status = 200 /\ "results" \in DOMAIN response)
          /\ (pc = "done" /\ exc # None) =>
                (exc = Some(ValueError) /\ response.status = 500 /\ session = "none")
    /\ (/\ exc # None
        /\ exc[1].type \in {"RatelimitException", "DuckDuckGoSearchException"}
        /\ attempt < 4) => pc = "sleep"

\* once a call returned there is no further call, wait or fan-out
C15_AfterReturn ==
    SearchReturned =>
        /\ calls' = calls
        /\ waits' = waits
        /\ attempt' = attempt
        /\ results' = results
        /\ urls' = urls
        /\ pc' \in {"gather", "done"}
        /\ session = "closed" => session' = "closed"

\* C15 (as amended): if the first f < 5 attempts fail with rate-limit or
\* provider errors and attempt f returns, the provider is called exactly
\* f + 1 times with exactly f waits and never again, whatever the workers do,
\* and the fan-out runs at most once; the request then ends with 200 and a
\* digest, unless deduplication raises on a result URL, which ends it with
\* 500 before any fan-out.
C15_RetryRecovery == [][C15_AfterReturn]_vars /\ []C15_Counts

C15_Witness ==
    /\ FanOutDone
    /\ calls = 4
    /\ waits = 3
    /\ \E k \in DOMAIN workers : Failed(workers[k])
    /\ response.status = 200

\* C15 as stated: once an attempt succeeded the request completes with a
\* digest (200).
C15_Original ==
    (SearchReturned /\ pc = "done") =>
        (response.status = 200 /\ calls = attempt + 1 /\ waits = attempt)

-----------------------------------------------------------------------------
(* Properties of results without a URL *)

Hosts(us) == {Host(us[k]) : k \in 1..Len(us)}

\* C16: a result without a URL is skipped by the deduplication and changes
\* neither the URLs kept nor the hosts seen; when the results are not empty
\* but none has a URL, no worker is started and the request answers 200 with
\* the empty digest.
C16_MissingUrlSkipped ==
    /\ DedupDone =>
          /\ urls = Dedup(SelectSeq(results, HasUrl)).urls
          /\ Hosts(urls) = Hosts(Hrefs(results))
          /\ Len(workers) = Len(urls)
          /\ \A k \in 1..Len(urls) : urls[k] # <<>>
    /\ (DedupDone /\ \A k \in 1..Len(results) : ~HasUrl(results[k])) =>
          /\ urls = <<>>
          /\ workers = <<>>
          /\ finished = <<>>
          /\ pc = "done" => response = [status |-> 200, results |-> <<>>]

C16_Witness ==
    /\ pc = "done"
    /\ Len(results) = 2
    /\ \A k \in 1..Len(results) : ~HasUrl(results[k])
    /\ workers = <<>>
    /\ response = [status |-> 200, results |-> <<>>]

-----------------------------------------------------------------------------
(* Termination *)

\* the request is over and answered
Answered == pc = "done" /\ response.status \in {200, 500}

\* C17: every request that is received is answered, with 200 or 500, after
\* at most 5 provider calls and 4 backoff waits; a failed worker does not
\* keep the fan-out waiting.
C17_Terminates ==
    /\ [](pc # "idle" => <>Answered)
    /\ [](calls <= 5 /\ waits <= 4 /\ attempt <= 4)

C17_Witness ==
    /\ Answered
    /\ calls = 5
    /\ waits = 4
    /\ session = "closed"
    /\ \A k \in DOMAIN workers : Failed(workers[k])
    /\ Len(workers) = 1

-----------------------------------------------------------------------------
(* Properties of two interleaved requests *)

\* the digest of the extracts among the results ws of the workers
RECURSIVE DigestOf(_)
DigestOf(ws) ==
    LET ok == SelectSeq(ws, Succeeded)
    IN  IF ok = <<>> THEN <<>>
        ELSE IF Len(ok) = 1 THEN BlockText(ok[1])
        ELSE BlockText(ok[1]) \o <<"\n">> \o DigestOf(Tail(ok))

\* the response of a request that ran alone, from the answers it got: the
\* exception it let out, the results of its last provider call and the
\* outcomes of the fetches of its URLs
AloneResponse(r) ==
    IF r.exc # None THEN [status |-> 500, detail |-> r.exc[1].msg]
    ELSE IF r.results = <<>> THEN [status |-> 200, results |-> <<>>]
    ELSE [status |-> 200, results |-> DigestOf(r.workers)]

\* everything request r holds comes from its own calls and fetches
OwnState(r) ==
    /\ r.pc = "idle" => r = IdleRequest
    /\ r.pc \in {"atext", "sleep"} =>
          /\ r.calls = r.attempt + (IF r.pc = "sleep" THEN 1 ELSE 0)
          /\ r.waits = r.calls
          /\ r.results = <<>> /\ r.urls = <<>> /\ r.workers = <<>>
          /\ r.session = "none"
    /\ r.pc \in {"gather", "done"} => r.calls = r.attempt + 1
    /\ (r.results # <<>> /\ r.exc = None) =>
          /\ r.urls = Dedup(r.results).urls
          /\ Len(r.workers) = Len(r.urls)
          /\ \A k \in 1..Len(r.urls) : r.workers[k].url = r.urls[k]
          /\ r.session = (IF r.pc = "done" THEN "closed" ELSE "open")
    /\ r.pc = "done" => r.response = AloneResponse(r)
    /\ r.pc # "done" => r.response = [status |-> 0]

\* C18: two requests interleaved at their awaits do not interfere: the
\* retry counter, the URLs, the workers, the session and the response of
\* each are its own, and each response is the one the request gives alone
\* on the same answers of the provider and of the web servers.
C18_NoInterference == OwnState(Running) /\ OwnState(other)

C18_Witness ==
    /\ pc = "done" /\ other.pc = "done"
    /\ response.status = 200 /\ response.results # <<>>
    /\ other.response.status = 500
    /\ attempt = 0 /\ other.attempt = 4
    /\ results # <<>>

====
